---- MODULE Spec2Model ----
(***************************************************************************)
(* Model of the Rigol oscilloscope drivers (rigol1000z.py, rigol2000a.py). *)
(* One driver object talks to one instrument over USBTMC.  Every driver    *)
(* method is one action; the commands it writes and the reads it performs  *)
(* are recorded, in order, in the trace of the call.                       *)
(*                                                                         *)
(* A byte string (a raw response, a numpy byte array) is kept run-length   *)
(* encoded: a sequence of segments [t, lo, hi], t = "hdr" for bytes lo..hi *)
(* of the binary block header and t = "smp" for the device samples lo..hi. *)
(***************************************************************************)
EXTENDS Integers, Sequences, FiniteSets, TLC

VARIABLES family, running, call

vars == <<family, running, call>>

----------------------------------------------------------------------------
(* Bounds of the model *)

\* the preamble reports k*maxBlockSize + r points, k in 0..MaxFullBlocks
MaxFullBlocks == 2
\* number of payload bytes missing from a short raw read
ShortBy == 5

----------------------------------------------------------------------------
(* Program constants *)

max_num_pts_1000z == 250000
max_num_pts_2000a == 1800000
\* slack added to the raw read of a block on the 2000a
read_margin_2000a == 10000
\* the fixed range and read size of the 2000a 'norm' path
norm_stop_2000a == 1400
norm_read_2000a == 1500
\* [11:] strips the binary block header
header_len == 11
\* default number_of_characters of the 2000a _read
default_read_2000a == 100
\* the read size of get_screenshot, and the [11:-4] trailer it strips
screenshot_read == 3850780
trailer_len == 4

Families == {"1000z", "2000a"}

\* range(1,5) on the 1000z, range(1,3) on the 2000a
Channels(fam) == IF fam = "1000z" THEN 1..4 ELSE 1..2

MaxNumPts(fam) == IF fam = "1000z" THEN max_num_pts_1000z ELSE max_num_pts_2000a

\* the modes get_data asserts
DataModes(fam) == IF fam = "1000z" THEN {"norm", "max", "raw"} ELSE {"norm", "raw"}

----------------------------------------------------------------------------
(* Byte strings *)

Seg(t, lo, hi) == [t |-> t, lo |-> lo, hi |-> hi]

RECURSIVE BLen(_)
BLen(b) == IF b = <<>> THEN 0 ELSE (Head(b).hi - Head(b).lo + 1) + BLen(Tail(b))

\* b[n:]
RECURSIVE BDrop(_, _)
BDrop(b, n) ==
    IF b = <<>> \/ n <= 0 THEN b
    ELSE LET h == Head(b)
             l == h.hi - h.lo + 1
         IN  IF n >= l THEN BDrop(Tail(b), n - l)
             ELSE <<Seg(h.t, h.lo + n, h.hi)>> \o Tail(b)

\* b[:n]; a negative n (read everything) keeps b
RECURSIVE BTake(_, _)
BTake(b, n) ==
    IF n < 0 THEN b
    ELSE IF b = <<>> \/ n = 0 THEN <<>>
    ELSE LET h == Head(b)
             l == h.hi - h.lo + 1
         IN  IF n >= l THEN <<h>> \o BTake(Tail(b), n - l)
             ELSE <<Seg(h.t, h.lo, h.lo + n - 1)>>

\* concatenation of two byte strings, adjacent runs merged
BCat(a, b) ==
    IF a = <<>> THEN b
    ELSE IF b = <<>> THEN a
    ELSE LET x == a[Len(a)]
             y == Head(b)
         IN  IF x.t = y.t /\ x.hi + 1 = y.lo
             THEN SubSeq(a, 1, Len(a) - 1) \o <<Seg(x.t, x.lo, y.hi)>> \o Tail(b)
             ELSE a \o b

\* np.concatenate of a non-empty list of arrays
RECURSIVE BConcat(_)
BConcat(datas) ==
    IF datas = <<>> THEN <<>> ELSE BCat(Head(datas), BConcat(Tail(datas)))

HasHeaderBytes(b) == \E i \in 1..Len(b) : b[i].t = "hdr"

----------------------------------------------------------------------------
(* The instrument's side of the conversation *)

\* the response to ':wav:data?' for the selected range star..stop:
\* the 11-byte block header, then the samples; short > 0 drops that many
\* samples from the end (a transport underrun)
DeviceData(star, stop, short) ==
    LET last == IF stop - short < star - 1 THEN star - 1 ELSE stop - short
    IN  <<Seg("hdr", 1, header_len)>>
        \o (IF last >= star THEN <<Seg("smp", star, last)>> ELSE <<>>)

----------------------------------------------------------------------------
(* Commands and reads, as recorded in the trace of a call *)

\* a command written to the instrument: cmd, its text argument s or its
\* numeric argument n; ch is the channel of a ':chan%i' command, else 0
W(cmd, s, n) == [n |-> n, cmd |-> cmd, s |-> s, k |-> "w", ch |-> 0]

\* _Rigol*Channel._write prefixes ':chan%i'
ChanW(ch, cmd, s, n) == [n |-> n, cmd |-> ":chan" \o cmd, s |-> s, k |-> "w", ch |-> ch]

\* a read of at most n bytes (n = -1: the whole message);
\* kind is "read" (text, stripped) or "read_raw"
R(kind, n) == [n |-> n, cmd |-> "", s |-> "", k |-> kind, ch |-> 0]

\* the num_bytes a text _read passes to the transport
TextReadLen(fam) == IF fam = "1000z" THEN -1 ELSE default_read_2000a

\* _ask: _write then _read
Ask(fam, w) == <<w, R("read", TextReadLen(fam))>>

\* _ask_raw: _write then _read_raw
AskRaw(w, nbytes) == <<w, R("read_raw", nbytes)>>

IsWrite(e, cmd) == e.k = "w" /\ e.cmd = cmd

Sent(trace, cmd) == \E i \in 1..Len(trace) : IsWrite(trace[i], cmd)

\* the positions of the writes of cmd in a trace, as a set
Positions(trace, cmd) == {i \in 1..Len(trace) : IsWrite(trace[i], cmd)}

NumWrites(trace) == Cardinality({i \in 1..Len(trace) : trace[i].k = "w"})

\* the acquisition state the instrument is left in by a trace
RECURSIVE RunAfter(_, _)
RunAfter(trace, r) ==
    IF trace = <<>> THEN r
    ELSE RunAfter(Tail(trace),
                  IF IsWrite(Head(trace), ":run") THEN TRUE
                  ELSE IF IsWrite(Head(trace), ":stop") THEN FALSE
                  ELSE r)

----------------------------------------------------------------------------
(* The preamble *)

\* one comma-separated field of the response: an integer literal, a real
\* literal that is not an integer literal (1e-8), or text that is no number
Field(kind, val) == [kind |-> kind, val |-> val]

\* int(x) raises ValueError unless x is an integer literal
IntOK(f) == f.kind = "int"

\* float(x) accepts integer and real literals
FloatOK(f) == f.kind \in {"int", "real"}

\* get_data_premable: pre[0..3] through int, pre[4..9] through float;
\* a missing field raises IndexError, fields beyond the tenth are not read
PreambleOK(pre) ==
    /\ Len(pre) >= 10
    /\ \A i \in 1..4  : IntOK(pre[i])
    /\ \A i \in 5..10 : FloatOK(pre[i])

\* info['points'] and info['xincrement'] of a preamble that decoded
Points(pre)     == pre[3].val
XIncrement(pre) == pre[5].val

----------------------------------------------------------------------------
(* The block plan and the block loop of get_data *)

NumBlocks(points, maxpts)    == points \div maxpts
LastBlockPts(points, maxpts) == points % maxpts

\* a 0-based start index
BlockStar_zero_based(i, maxpts) == i * maxpts

\* ':wav:star' and ':wav:stop' of full block i (0-based)
BlockStar(i, maxpts) == 1 + i * maxpts
BlockStop(i, maxpts) == maxpts * (i + 1)

\* data = _ask_raw(':wav:data?')[11:]
StripHeader(data) == BDrop(data, header_len)

\* the query written before the range was selected
Block_query_first(star, stop, short, nbytes) ==
    [trace |-> AskRaw(W(":wav:data?", "", 0), nbytes)
               \o <<W(":wav:star", "", star), W(":wav:stop", "", stop)>>,
     data  |-> StripHeader(BTake(DeviceData(star, stop, short), nbytes))]

\* one pass of the loop body after the range was chosen: the two range
\* commands, the query, the raw read and the stripped payload
Block(star, stop, short, nbytes) ==
    [trace |-> <<W(":wav:star", "", star), W(":wav:stop", "", stop)>>
               \o AskRaw(W(":wav:data?", "", 0), nbytes),
     data  |-> StripHeader(BTake(DeviceData(star, stop, short), nbytes))]

\* for i in range(num_blocks+1), from pass i on; the read of block
\* number shortAt (1-based, 0: none) comes back ShortBy bytes short
RECURSIVE BlockLoop(_, _, _, _, _, _)
BlockLoop(i, nb, last, maxpts, shortAt, nbytes) ==
    LET short == IF shortAt = i + 1 THEN ShortBy ELSE 0
        none  == [datas |-> <<>>, trace |-> <<>>]
    IN  IF i > nb THEN none
        ELSE IF i < nb
        THEN LET b    == Block(BlockStar(i, maxpts), BlockStop(i, maxpts), short, nbytes)
                 rest == BlockLoop(i + 1, nb, last, maxpts, shortAt, nbytes)
             IN  [datas |-> <<b.data>> \o rest.datas, trace |-> b.trace \o rest.trace]
        ELSE IF last # 0
        THEN LET b == Block(1 + nb * maxpts, nb * maxpts + last, short, nbytes)
             IN  [datas |-> <<b.data>>, trace |-> b.trace]
        ELSE none

----------------------------------------------------------------------------
(* The time axis *)

\* the shape of a numpy range: len values from 0 in steps of num/den
Axis(len, num, den) == [len |-> len, num |-> num, den |-> den]

\* np.arange(0, stop, step) for step > 0: ceil(stop/step) values
Arange(stop, step) == Axis((stop + step - 1) \div step, step, 1)

\* np.linspace(0, stop, num): num values, the last one is stop
Linspace(stop, num) == Axis(num, IF num > 1 THEN stop ELSE 0, IF num > 1 THEN num - 1 ELSE 1)

----------------------------------------------------------------------------
(* The record of a call: its arguments, the responses the instrument gave, *)
(* what was written and read, and how it ended                             *)

NoCall ==
    [t |-> Axis(0, 0, 1), ch |-> 0, trace |-> <<>>, pre |-> <<>>, shortAt |-> 0,
     op |-> "new", argS |-> "", argN |-> 0, mode |-> "", filename |-> FALSE,
     outcome |-> "ok", err |-> "", nen |-> 0, chunked |-> FALSE,
     returned |-> FALSE, buf |-> <<>>, vlen |-> 0]

\* an exception leaves the method: nothing is returned
Raise(c, err, trace) == [c EXCEPT !.outcome = "error", !.err = err, !.trace = trace]

\* the acquisition restarted before returning
ReturnWaveform_resume(c, trace, buf, t) ==
    LET d == [c EXCEPT !.trace = trace \o <<W(":run", "", 0)>>, !.buf = buf,
                       !.vlen = BLen(buf), !.t = t]
    IN  IF c.filename /\ t.len # BLen(buf)
        THEN [d EXCEPT !.outcome = "error", !.err = "ValueError"]
        ELSE [d EXCEPT !.returned = TRUE]

\* return t, v; with a filename np.c_[t, v] needs equal lengths first
ReturnWaveform(c, trace, buf, t) ==
    LET d == [c EXCEPT !.trace = trace, !.buf = buf, !.vlen = BLen(buf), !.t = t]
    IN  IF c.filename /\ t.len # BLen(buf)
        THEN [d EXCEPT !.outcome = "error", !.err = "ValueError"]
        ELSE [d EXCEPT !.returned = TRUE]

\* ':stop' written after the source was selected
Setup1000z_stop_late(ch, mode) ==
    <<W(":wav:sour", "", ch), W(":stop", "", 0),
      W(":wav:mode", mode, 0), W(":wav:form", "byte", 0)>>

\* the commands of get_data's '# Setup scope' on the 1000z
Setup1000z(ch, mode) ==
    <<W(":stop", "", 0), W(":wav:sour", "", ch),
      W(":wav:mode", mode, 0), W(":wav:form", "byte", 0)>>

\* the commands of get_data's '# Setup scope' on the 2000a
Setup2000a(ch, mode) ==
    <<W(":wav:sour", "", ch), W(":wav:mode", mode, 0), W(":wav:form", "byte", 0)>>

\* _Rigol1054zChannel.get_data
GetData1000z(c) ==
    LET asked  == Setup1000z(c.ch, c.mode) \o Ask("1000z", W(":wav:pre?", "", 0))
        points == Points(c.pre)
        loop   == BlockLoop(0, NumBlocks(points, max_num_pts_1000z),
                            LastBlockPts(points, max_num_pts_1000z),
                            max_num_pts_1000z, c.shortAt, -1)
        trace  == asked \o loop.trace
    IN  IF c.mode \notin DataModes("1000z") THEN Raise(c, "AssertionError", <<>>)
        ELSE IF ~PreambleOK(c.pre) THEN Raise(c, "MalformedPreamble", asked)
        ELSE IF loop.datas = <<>>
        THEN Raise([c EXCEPT !.chunked = TRUE], "ValueError", trace)
        ELSE ReturnWaveform([c EXCEPT !.chunked = TRUE], trace, BConcat(loop.datas),
                            Arange(points * XIncrement(c.pre), XIncrement(c.pre)))

\* _Rigol2072aChannel.get_data
GetData2000a(c) ==
    LET asked  == Setup2000a(c.ch, c.mode) \o Ask("2000a", W(":wav:pre?", "", 0))
        points == Points(c.pre)
        loop   == BlockLoop(0, NumBlocks(points, max_num_pts_2000a),
                            LastBlockPts(points, max_num_pts_2000a),
                            max_num_pts_2000a, c.shortAt,
                            max_num_pts_2000a + read_margin_2000a)
        rawT   == asked \o <<W(":stop", "", 0)>> \o loop.trace
        normT  == asked \o <<W(":wav:star", "", 1), W(":wav:stop", "", norm_stop_2000a)>>
                        \o AskRaw(W(":wav:data?", "", 0), norm_read_2000a)
        normD  == BTake(DeviceData(1, norm_stop_2000a,
                                   IF c.shortAt = 1 THEN ShortBy ELSE 0),
                        norm_read_2000a)
    IN  IF c.mode \notin DataModes("2000a") THEN Raise(c, "AssertionError", <<>>)
        ELSE IF ~PreambleOK(c.pre) THEN Raise(c, "MalformedPreamble", asked)
        ELSE IF c.mode = "raw"
        THEN IF loop.datas = <<>>
             THEN Raise([c EXCEPT !.chunked = TRUE], "ValueError", rawT)
             ELSE LET buf == BConcat(loop.datas)
                  IN  ReturnWaveform([c EXCEPT !.chunked = TRUE], rawT, buf,
                                     Linspace(points * XIncrement(c.pre), BLen(buf)))
        ELSE ReturnWaveform(c, normT, normD,
                            Linspace(points * XIncrement(c.pre), BLen(normD)))

----------------------------------------------------------------------------
(* Inputs *)

\* the mode argument of get_data; "fast" is accepted by neither family
Modes == {"norm", "max", "raw", "fast"}

\* the channels the callers below address: the first and the last
Addressed(fam) == {1, Cardinality(Channels(fam))}

\* the point counts a preamble reports: around every multiple of the block
\* size, and the length of the screen preview
PointCounts(fam) ==
    {k * MaxNumPts(fam) + r : k \in 0..MaxFullBlocks, r \in {0, 1, MaxNumPts(fam) - 1}}
    \cup {norm_stop_2000a}

XIncrements == {1, 2}

\* "0,2,<points>,1,<xincrement>,0,0,1,0,127"
WellFormed(points, xinc) ==
    <<Field("int", 0), Field("int", 2), Field("int", points), Field("int", 1),
      Field("real", xinc), Field("real", 0), Field("int", 0),
      Field("real", 1), Field("int", 0), Field("int", 127)>>

DefaultPre(fam) == WellFormed(MaxNumPts(fam) + 1, 1)

\* responses to ':wav:pre?': well formed ones, one with 9 and one with 11
\* fields, and ones whose field d is text of another kind
Preambles(fam) ==
    {WellFormed(p, x) : p \in PointCounts(fam), x \in XIncrements}
    \cup {SubSeq(DefaultPre(fam), 1, 9), DefaultPre(fam) \o <<Field("int", 0)>>}
    \cup {[DefaultPre(fam) EXCEPT ![d] = Field(kind, @.val)] :
              d \in 1..10, kind \in {"int", "real", "bad"}}

\* the blocks of a chunked transfer of a preamble
PlannedBlocks(fam, pre) ==
    NumBlocks(Points(pre), MaxNumPts(fam))
    + (IF LastBlockPts(Points(pre), MaxNumPts(fam)) # 0 THEN 1 ELSE 0)

----------------------------------------------------------------------------
(* The driver *)

\* Rigol1054z.__init__: for every usbtmc device of the kernel driver with
\* the scope's vid and pid, 'echo *IDN? >> /dev/usbtmcN' writes a query
\* that nothing reads; found tells whether such a device is listed
Construct(fam, found) ==
    IF fam = "1000z" /\ found
    THEN [NoCall EXCEPT !.trace = <<W("*IDN?", "", 0)>>]
    ELSE NoCall

\* Rigol1054z() or Rigol2072a(); the acquisition may run or not
Init ==
    /\ family \in Families
    /\ running \in BOOLEAN
    /\ call \in {Construct(family, found) : found \in BOOLEAN}

\* a call ended: the instrument is left as its commands left it
Done(c) ==
    /\ call' = c
    /\ running' = RunAfter(c.trace, running)
    /\ UNCHANGED family

\* osc[ch].get_data(mode, filename); inputs the call never consumes are
\* left at their defaults
get_data ==
    \E ch \in {1}, mode \in Modes, filename \in BOOLEAN,
       pre \in Preambles(family), shortAt \in 0..(MaxFullBlocks + 1) :
        LET c == [NoCall EXCEPT !.op = "get_data", !.ch = ch, !.mode = mode,
                                !.filename = filename, !.pre = pre,
                                !.shortAt = shortAt]
            reads == IF family = "2000a" /\ mode = "norm" THEN 1
                     ELSE PlannedBlocks(family, pre)
        IN  /\ mode \notin DataModes(family)
                   => pre = DefaultPre(family) /\ ~filename /\ shortAt = 0
            /\ mode \in DataModes(family) /\ ~PreambleOK(pre)
                   => ~filename /\ shortAt = 0
            /\ mode \in DataModes(family) /\ PreambleOK(pre) => shortAt <= reads
            /\ Done(IF family = "1000z" THEN GetData1000z(c) ELSE GetData2000a(c))

----------------------------------------------------------------------------
(* The validated setters of a channel *)

CouplingModes == {"AC", "DC", "GND"}

\* the ratios of set_probe_ratio, in hundredths: 0.01 ... 1000
ProbeRatios == {1, 2, 5, 10, 20, 50, 100, 200, 500, 1000, 2000, 5000,
                10000, 20000, 50000, 100000}

Units == {"volt", "watt", "amp", "unkn"}

\* -1000 <= offset <= 1000., in volts
OffsetOK(offset) == -1000 <= offset /\ offset <= 1000

\* 8e-3 <= range <= 800., in millivolts
RangeOK(range) == 8 <= range /\ range <= 800000

\* str.upper() and str.lower() on the texts the callers below pass
Upper(x) == CASE x = "dc"   -> "DC"
              [] x = "Gnd"  -> "GND"
              [] x = "off"  -> "OFF"
              [] OTHER      -> x

Lower(x) == CASE x = "VOLT" -> "volt"
              [] x = "Amp"  -> "amp"
              [] x = "OHM"  -> "ohm"
              [] OTHER      -> x

\* the assert placed after the write
SetCoupling_write_first(fam, c) ==
    IF Upper(c.argS) \notin CouplingModes
    THEN Raise(c, "AssertionError", <<ChanW(c.ch, ":coup", Upper(c.argS), 0)>>)
    ELSE [c EXCEPT !.trace = <<ChanW(c.ch, ":coup", Upper(c.argS), 0)>>
                             \o Ask(fam, ChanW(c.ch, ":coup?", "", 0))]

\* set_coupling: upper(), assert, ':coup', then get_coupling
SetCoupling(fam, c) ==
    IF Upper(c.argS) \notin CouplingModes THEN Raise(c, "AssertionError", <<>>)
    ELSE [c EXCEPT !.trace = <<ChanW(c.ch, ":coup", Upper(c.argS), 0)>>
                             \o Ask(fam, ChanW(c.ch, ":coup?", "", 0))]

\* set_probe_ratio: assert, ':prob', then get_probe_ratio
SetProbeRatio(fam, c) ==
    IF c.argN \notin ProbeRatios THEN Raise(c, "AssertionError", <<>>)
    ELSE [c EXCEPT !.trace = <<ChanW(c.ch, ":prob", "", c.argN)>>
                             \o Ask(fam, ChanW(c.ch, ":prob?", "", 0))]

\* set_units: lower(), assert, ':unit'
SetUnits(fam, c) ==
    IF Lower(c.argS) \notin Units THEN Raise(c, "AssertionError", <<>>)
    ELSE [c EXCEPT !.trace = <<ChanW(c.ch, ":unit", Lower(c.argS), 0)>>]

\* set_offset_V: assert, ':off', then get_offset_V
SetOffsetV(fam, c) ==
    IF ~OffsetOK(c.argN) THEN Raise(c, "AssertionError", <<>>)
    ELSE [c EXCEPT !.trace = <<ChanW(c.ch, ":off", "", c.argN)>>
                             \o Ask(fam, ChanW(c.ch, ":off?", "", 0))]

\* set_range_V: assert, ':rang', then get_range_V
SetRangeV(fam, c) ==
    IF ~RangeOK(c.argN) THEN Raise(c, "AssertionError", <<>>)
    ELSE [c EXCEPT !.trace = <<ChanW(c.ch, ":rang", "", c.argN)>>
                             \o Ask(fam, ChanW(c.ch, ":rang?", "", 0))]

set_coupling ==
    \E ch \in Addressed(family), coupling \in {"AC", "dc", "Gnd", "off", "XX"} :
        Done(SetCoupling(family, [NoCall EXCEPT !.op = "set_coupling", !.ch = ch,
                                                !.argS = coupling]))

set_probe_ratio ==
    \E ch \in Addressed(family), ratio \in ProbeRatios \cup {0, 3, 300, 200000} :
        Done(SetProbeRatio(family, [NoCall EXCEPT !.op = "set_probe_ratio", !.ch = ch,
                                                  !.argN = ratio]))

set_units ==
    \E ch \in Addressed(family), unit \in {"volt", "VOLT", "Amp", "unkn", "OHM", "db"} :
        Done(SetUnits(family, [NoCall EXCEPT !.op = "set_units", !.ch = ch,
                                             !.argS = unit]))

set_offset_V ==
    \E ch \in Addressed(family), offset \in {-1001, -1000, 0, 1000, 1001} :
        Done(SetOffsetV(family, [NoCall EXCEPT !.op = "set_offset_V", !.ch = ch,
                                               !.argN = offset]))

set_range_V ==
    \E ch \in Addressed(family), range \in {0, 7, 8, 800000, 800001} :
        Done(SetRangeV(family, [NoCall EXCEPT !.op = "set_range_V", !.ch = ch,
                                              !.argN = range]))

----------------------------------------------------------------------------
(* Acquisition control and memory depth *)

\* the tuples set_memory_depth asserts against, without 'AUTO'
MemoryDepths(n) ==
    CASE n = 1       -> {12000, 120000, 1200000, 12000000, 24000000}
      [] n = 2       -> {6000, 60000, 600000, 6000000, 12000000}
      [] n \in {3,4} -> {3000, 30000, 300000, 3000000, 6000000}
      [] OTHER       -> {}

\* the if/elif chain of asserts: no branch is taken for a count outside 1..4
DepthAccepted(n, isAuto, pts) ==
    n \in 1..4 => isAuto \/ pts \in MemoryDepths(n)

\* get_channels_enabled: ':chanN:disp?' and its read, channel by channel
EnabledQueries(fam) ==
    [i \in 1..(2 * Cardinality(Channels(fam))) |->
        IF i % 2 = 1 THEN ChanW((i + 1) \div 2, ":disp?", "", 0)
        ELSE R("read", TextReadLen(fam))]

\* set_memory_depth; argS is 'AUTO', another text, or "" for the number argN
SetMemoryDepth(fam, c) ==
    LET asked == EnabledQueries(fam)
        mdep  == IF c.argS = "AUTO" THEN W(":acq:mdep", "AUTO", 0)
                 ELSE W(":acq:mdep", "", c.argN)
    IN  IF c.argS \notin {"AUTO", ""} THEN Raise(c, "ValueError", asked)
        ELSE IF ~DepthAccepted(c.nen, c.argS = "AUTO", c.argN)
        THEN Raise(c, "AssertionError", asked)
        ELSE [c EXCEPT !.trace = asked \o <<W(":run", "", 0), mdep>>]

\* nen channels answer '1' to ':disp?'
set_memory_depth ==
    \E nen \in 0..Cardinality(Channels(family)),
       pts \in {[n |-> 0, s |-> "AUTO"], [n |-> 0, s |-> "auto"]}
               \cup {[n |-> d, s |-> ""] :
                        d \in UNION {MemoryDepths(k) : k \in 1..4} \cup {7}} :
        Done(SetMemoryDepth(family, [NoCall EXCEPT !.op = "set_memory_depth",
                                                   !.argS = pts.s, !.argN = pts.n,
                                                   !.nen = nen]))

\* the response to ':disp:data?': header, n image bytes, 4 trailing bytes
DeviceImage(n) ==
    <<Seg("hdr", 1, header_len)>>
    \o (IF n > 0 THEN <<Seg("img", 1, n)>> ELSE <<>>)
    \o <<Seg("trl", 1, trailer_len)>>

\* raw[11:-4]
StripFrame(raw) ==
    IF BLen(raw) <= header_len + trailer_len THEN <<>>
    ELSE BTake(BDrop(raw, header_len), BLen(raw) - header_len - trailer_len)

\* Rigol1054z.get_screenshot: the query is written, then type is asserted
GetScreenshot1000z(c) ==
    LET query == W(":disp:data?", c.argS, 0)
    IN  IF c.argS \notin {"jpeg", "png", "bmp8", "bmp24", "tiff"}
        THEN Raise(c, "AssertionError", <<query>>)
        ELSE [c EXCEPT !.trace = <<query, R("read_raw", screenshot_read)>>,
                       !.buf = StripFrame(BTake(DeviceImage(c.argN), screenshot_read))]

\* Rigol2072a.get_screenshot: ':disp:data?' and one raw read
GetScreenshot2000a(c) ==
    [c EXCEPT !.trace = AskRaw(W(":disp:data?", "", 0), screenshot_read),
              !.buf = StripFrame(BTake(DeviceImage(c.argN), screenshot_read))]

\* the sizes of the image the instrument answers with
ImageSizes == {0, 1152000}

\* osc.get_screenshot(filename, type); the 2000a takes no type
get_screenshot ==
    \E type \in {"png", "jpeg", "gif"}, size \in ImageSizes :
        LET c == [NoCall EXCEPT !.op = "get_screenshot", !.argS = type, !.argN = size]
        IN  /\ family = "2000a" => type = "png"
            /\ family = "1000z" /\ type = "gif" => size = 0
            /\ Done(IF family = "1000z" THEN GetScreenshot1000z(c)
                    ELSE GetScreenshot2000a([c EXCEPT !.argS = ""]))

run == Done([NoCall EXCEPT !.op = "run", !.trace = <<W(":run", "", 0)>>])

stop == Done([NoCall EXCEPT !.op = "stop", !.trace = <<W(":stop", "", 0)>>])

Next ==
    \/ get_data
    \/ set_coupling
    \/ set_probe_ratio
    \/ set_units
    \/ set_offset_V
    \/ set_range_V
    \/ set_memory_depth
    \/ get_screenshot
    \/ run
    \/ stop

Spec == Init /\ [][Next]_vars

----------------------------------------------------------------------------
(* Properties *)

IsGetData == call.op = "get_data"

\* the call read a preamble that decoded and took the block loop
Chunked == IsGetData /\ call.chunked

IsStar(e)    == IsWrite(e, ":wav:star")
IsStop(e)    == IsWrite(e, ":wav:stop")
IsDataAsk(e) == IsWrite(e, ":wav:data?")

\* the ':wav:star' and the ':wav:stop' commands of the call, in order
Stars == SelectSeq(call.trace, IsStar)
Stops == SelectSeq(call.trace, IsStop)

RECURSIVE SumSizes(_, _)
SumSizes(ss, es) ==
    IF ss = <<>> \/ es = <<>> THEN 0
    ELSE (Head(es).n - Head(ss).n + 1) + SumSizes(Tail(ss), Tail(es))

\* C1: the (':wav:star', ':wav:stop') pairs of a chunked get_data partition
\* [1, pointCount]: the first start is 1, each next start is the previous
\* stop + 1, every block holds 1..maxBlockSize samples, the sizes sum to
\* pointCount, and pointCount = k*maxBlockSize gives exactly k blocks.
C1_BlockPlanPartitions ==
    Chunked =>
        LET n      == Len(Stars)
            points == Points(call.pre)
            maxpts == MaxNumPts(family)
        IN  /\ Len(Stops) = n
            /\ n > 0 => Stars[1].n = 1
            /\ \A i \in 1..n :
                  /\ Stops[i].n - Stars[i].n + 1 >= 1
                  /\ Stops[i].n - Stars[i].n + 1 <= maxpts
            /\ \A i \in 1..(n - 1) : Stars[i + 1].n = Stops[i].n + 1
            /\ SumSizes(Stars, Stops) = points
            /\ \A k \in 0..(MaxFullBlocks + 1) : points = k * maxpts => n = k

\* a chunked call of an exact multiple of the block size: two full blocks
C1_Witness ==
    /\ Chunked
    /\ Points(call.pre) = 2 * MaxNumPts(family)
    /\ Len(Stars) = 2
    /\ Stops[2].n = Points(call.pre)

\* C2 (as claimed): with pointCount = 0 a chunked get_data sends no range
\* command and no ':wav:data?' and returns an empty time and voltage
\* sequence instead of ending in an error.
C2_ZeroPointsReturnsEmpty ==
    Chunked /\ Points(call.pre) = 0 =>
        /\ Stars = <<>> /\ Stops = <<>>
        /\ ~Sent(call.trace, ":wav:data?")
        /\ call.outcome = "ok"
        /\ call.returned
        /\ call.buf = <<>> /\ call.vlen = 0 /\ call.t.len = 0

\* the argument of the call is outside the legal set of its parameter
IllegalArgument ==
    \/ call.op = "set_coupling"    /\ Upper(call.argS) \notin {"AC", "DC", "GND"}
    \/ call.op = "set_probe_ratio" /\ call.argN \notin ProbeRatios
    \/ call.op = "set_units"       /\ Lower(call.argS) \notin Units
    \/ call.op = "set_offset_V"    /\ (call.argN < -1000 \/ call.argN > 1000)
    \/ call.op = "set_range_V"     /\ (call.argN < 8 \/ call.argN > 800000)
    \/ call.op = "get_data"
       /\ call.mode \notin (IF family = "1000z" THEN {"norm", "max", "raw"}
                            ELSE {"norm", "raw"})

\* C3: a call of set_coupling, set_probe_ratio, set_units, set_offset_V,
\* set_range_V or get_data with an argument outside the legal set ends in
\* an error and writes no command to the transport (texts compared after
\* the method's case folding).
C3_RejectedBeforeAnyCommand ==
    IllegalArgument => call.outcome = "error" /\ NumWrites(call.trace) = 0
                       /\ call.trace = <<>>

\* set_coupling('off') was rejected
C3_Witness ==
    /\ call.op = "set_coupling"
    /\ call.argS = "off"
    /\ call.outcome = "error"
    /\ call.trace = <<>>

\* C4 (as claimed): set_memory_depth sends ':run' and ':acq:mdep' only for
\* AUTO or a value of the legal set of the enabled-channel count (none for
\* a count of 0); any other value sends neither.
C4_MemoryDepthOnlyLegal ==
    call.op = "set_memory_depth"
    /\ (Sent(call.trace, ":run") \/ Sent(call.trace, ":acq:mdep"))
        => \/ call.argS = "AUTO"
           \/ call.argS = "" /\ call.argN \in MemoryDepths(call.nen)

\* C5 (as claimed): when every raw read is an 11-byte header followed by
\* exactly the samples of the selected range, the buffer holds sample bytes
\* only, pointCount of them on the chunked path and 1400 on the 2000a
\* 'norm' path.
C5_BufferIsSamplesOnly ==
    IsGetData /\ call.returned /\ call.shortAt = 0 =>
        /\ ~HasHeaderBytes(call.buf)
        /\ BLen(call.buf) = (IF call.chunked THEN Points(call.pre) ELSE norm_stop_2000a)

\* the mode of the call passed get_data's assert
ModeAccepted == IsGetData /\ call.mode \in DataModes(family)

\* the response to ':wav:pre?' has not exactly 10 fields, or one of its
\* first ten is no integer (fields 0-3) or no real (fields 4-9)
MalformedResponse ==
    \/ Len(call.pre) # 10
    \/ \E i \in 1..Len(call.pre) : \/ i <= 4 /\ call.pre[i].kind # "int"
                                   \/ i \in 5..10 /\ call.pre[i].kind = "bad"

\* C6 (as claimed): a preamble response with fewer or more than 10 fields,
\* or with a field that does not parse as its positional type, ends
\* get_data in an error, with no ':wav:star', ':wav:stop' or ':wav:data?'
\* sent and no waveform returned.
C6_MalformedPreambleAborts ==
    ModeAccepted /\ MalformedResponse =>
        /\ call.outcome = "error"
        /\ ~call.returned
        /\ Stars = <<>> /\ Stops = <<>>
        /\ ~Sent(call.trace, ":wav:data?")

\* C7 (as claimed): a raw read that comes back short of its block makes
\* get_data end in an error at that block: no later block is requested and
\* no waveform is returned.
C7_ShortReadAborts ==
    IsGetData /\ call.shortAt # 0 =>
        /\ call.outcome = "error"
        /\ ~call.returned
        /\ Cardinality(Positions(call.trace, ":wav:data?")) = call.shortAt

\* C8 (as claimed): a get_data that returns gives time and voltage
\* sequences of one length, the length of the assembled buffer.
C8_OnePairPerBufferElement ==
    IsGetData /\ call.returned =>
        /\ call.t.len = call.vlen
        /\ call.vlen = BLen(call.buf)

IsQuery(e) ==
    e.k = "w" /\ e.cmd \in {"*IDN?", ":wav:pre?", ":wav:data?", ":disp:data?",
                            ":chan:coup?", ":chan:prob?", ":chan:off?",
                            ":chan:rang?", ":chan:disp?"}

IsRead(e) == e.k \in {"read", "read_raw"}

\* the queries of a trace whose response was not read
RECURSIVE Unread(_)
Unread(trace) ==
    IF trace = <<>> THEN 0
    ELSE IF IsQuery(Head(trace))
    THEN (IF Len(trace) >= 2 /\ IsRead(trace[2]) THEN 0 ELSE 1) + Unread(Tail(trace))
    ELSE Unread(Tail(trace))

\* C11 (as claimed): in the construction of the driver and in every
\* operation after it, also one that ends in an error, each query written
\* is followed by one read before the next command is written, and each
\* read answers the query written just before it; no response is left
\* unread when the operation ends.
C11_EveryQueryIsRead ==
    LET tr == call.trace
    IN  /\ \A i \in 1..Len(tr) :
              /\ IsQuery(tr[i]) => i < Len(tr) /\ IsRead(tr[i + 1])
              /\ IsRead(tr[i]) => i > 1 /\ IsQuery(tr[i - 1])
        /\ Unread(tr) = 0

\* the axis holds n values, value i being i * xinc
FollowsLaw(axis, n, xinc) ==
    /\ axis.len = n
    /\ n > 1 => axis.num = xinc * axis.den

\* C12 (as claimed): for one preamble and a buffer of pointCount samples
\* both families return the same time sequence, time[i] = i * xIncrement
\* for i = 0..pointCount-1: the axis get_data returned follows that law,
\* and so does the axis the other family builds from the same preamble.
C12_SameTimeAxisLaw ==
    IsGetData /\ call.returned /\ BLen(call.buf) = Points(call.pre) =>
        LET n    == Points(call.pre)
            xinc == XIncrement(call.pre)
        IN  /\ FollowsLaw(call.t, n, xinc)
            /\ FollowsLaw(Arange(n * xinc, xinc), n, xinc)
            /\ FollowsLaw(Linspace(n * xinc, n), n, xinc)

\* the commands of the driver that start or restart an acquisition:
\* run, set_single_shot, autoscale, force
AcquisitionCommands == {":run", ":sing", ":aut", ":tfor"}

\* no acquisition command is written after a ':stop' of the trace
NoRestartAfterStop(tr) ==
    \A p \in Positions(tr, ":stop") : \A q \in (p + 1)..Len(tr) :
        ~(tr[q].k = "w" /\ tr[q].cmd \in AcquisitionCommands)

\* C13: a get_data call that sent ':stop' sends no ':run' or other
\* acquisition command after it, whether it returns or ends in an error,
\* and leaves the instrument stopped; a stopped instrument runs again only
\* through an operation that writes ':run' (run, set_memory_depth).
C13_GetDataNeverResumes ==
    [][/\ call'.op = "get_data" /\ Sent(call'.trace, ":stop")
            => NoRestartAfterStop(call'.trace) /\ ~running'
       /\ ~running /\ running'
            => call'.op \in {"run", "set_memory_depth"} /\ Sent(call'.trace, ":run")
      ]_vars

\* a 1000z get_data that stopped the instrument and then failed on the
\* preamble, and one that returned a waveform over three blocks
C13_Witness ==
    /\ IsGetData /\ Sent(call.trace, ":stop") /\ ~running
    /\ \/ call.err = "MalformedPreamble" /\ family = "1000z"
       \/ call.returned /\ Len(Stars) = 3

====
